---------------------------- MODULE MCMailingList ----------------------------
\* MailingList on the small instances of MCRegistrationFlow.
EXTENDS MailingList, MCRegistrationFlow

CONSTANTS g1, g2

MCMailSymmetry ==
  Permutations(Workers) \cup Permutations(Sessions) \cup Permutations(Groups)
=============================================================================
