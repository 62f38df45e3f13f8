------------------------------- MODULE MCFraming -------------------------------
EXTENDS Framing

\* A message of a header alone, one longer than the first buffer, one between.
MCSize == <<2, 5, 3, 2>>
=============================================================================
