------------------------------- MODULE MCModem -------------------------------
EXTENDS Modem
=============================================================================
