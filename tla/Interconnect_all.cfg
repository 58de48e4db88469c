CONSTANTS
  N = 3
  Kinds = {"lic", "pic", "shi"}
  Banks = {0, 1}
  BankOf <- MCBankOf
  LockAddrs = {3}
  Ops <- MCOps
  Latency <- MCLatency
SPECIFICATION Spec
INVARIANTS OwnAnswer ListsSound SemaphoresAccounted
PROPERTY Served
