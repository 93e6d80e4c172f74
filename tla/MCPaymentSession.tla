-------------------------- MODULE MCPaymentSession --------------------------
EXTENDS PaymentSession
=============================================================================
