SPECIFICATION WorkerSpec
CONSTANTS
  ca = ca
  worker = worker
  iface = iface
  sched = sched
  Classes = {ca}
  Features = {sched}
  Data = {s1, s2}
  Uris = {iface}
  Mixins <- MCMixins
  Provides <- MCProvides
  Handles = {h1, h2}
  MaxDescriptors = 1
  WorkerMixin = worker
  WorkSchedule = sched
  WorkInterface = iface
  QueueSize = 2
  Null = Null
INVARIANTS TypeOK WorkStaysHome
PROPERTY ImplementsWorkChannels
