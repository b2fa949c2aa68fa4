-------------------------- MODULE MCTrialReminder --------------------------
\* A small instance of TrialReminder: two providers, the keyed one first.
EXTENDS TrialReminder

MCChain == <<"resend", "smtp2go">>
=============================================================================
