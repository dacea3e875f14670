\* Rosters of 1, 2 and 3 producers; the chain's configuration (10 s turns,
\* 3 s gap) and one whose turn is not a whole number of seconds.
CONSTANTS
    P1 = P1
    P2 = P2
    P3 = P3
    MaxGap = 65
    NoKey = NoKey
    NoSig = NoSig

SPECIFICATION Spec

INVARIANT TimingMatchesRotation

\* The probe stops once the header time reaches MaxGap.
CHECK_DEADLOCK FALSE
