------------------------------ MODULE MCRunTests ------------------------------
\* Instances of RunTests.
EXTENDS RunTests

CONSTANTS t1, t2

TwoTests == {t1, t2}
OneTest == {t1}
NoTests == {}
PassOrFail == {"PASSED", "FAILED"}

=============================================================================
