---------------------------- MODULE MCOnboarding ----------------------------
EXTENDS Onboarding
=============================================================================
