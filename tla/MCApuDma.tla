------------------------------ MODULE MCApuDma ------------------------------
EXTENDS ApuDma
=============================================================================
