SPECIFICATION CoalescerSpec
CONSTANTS
  a1 = a1
  a2 = a2
  b1 = b1
  shell = shell
  curl = curl
  Alerts = {a1, a2, b1}
  CoalesceKeys = {shell, curl}
  KeyOf <- MCKeyOf
INVARIANTS
  OneRecordPerGroup
CHECK_DEADLOCK FALSE
