\* Two goroutines for the pairing loop, the watchdog and one operator; the
\* deletion that follows a logout lands before the pairing loop starts again.
SPECIFICATION FairSpec
CONSTANTS
    l1 = l1
    l2 = l2
    operator = operator
    Loops <- MCLoops
    Watchdog = watchdog
    Operators <- MCOperators
    PromptDelete = TRUE
INVARIANTS OneLoginLoop SendsNeedLink OutageIsTimed
PROPERTIES PairingGoesOn LogoutRestarts OutageHeals
