\* One call to twice as many servers as it needs signatures; two may fail.
CONSTANTS
  NoCaller = NoCaller
  Callers = {c1}
  Servers = {1, 2, 3, 4}
  Failing = {3, 4}
  Verified = {1, 2, 3}
  Threshold = 2
  MinSignatures = 2
  MaxLatency = 2
  MaxDrift = 1
  MaxElapsed = 2
SPECIFICATION Spec
\* Every caller calls once, and the goroutines end with their call.
CHECK_DEADLOCK FALSE
INVARIANTS TypeOK AccountingExact RejectNeverBlocks GiveUpIsFinal GivesUpAtOnce
           ResultSound NoLeakOnSuccess
PROPERTIES Terminates
