SPECIFICATION Spec
CONSTANTS
  DeviceHandles = {d1, d2}
  QueueHandles = {q1, q2}
  Threads = {t1, t2}
  MaxDevices = 2
  MaxContexts = 3
INVARIANT QueuesDropFirst
CHECK_DEADLOCK FALSE
