SPECIFICATION Spec
CONSTANTS
  Views = {c1, c2}
  Handles = {h1, h2}
  Features = {subscribe, f}
  Required <- MCRequired
  PortSubscribe = subscribe
  Ports = {control, notify}
  Values = {v1, v2}
  Uris <- MCUris
  Mixins <- MCMixins
  Provides <- MCProvides
  Default = {control}
  MaxDescriptors = 2
  Null = Null
SYMMETRY Interchangeable
INVARIANTS TypeOK HostHoldsItsUI ShowsPluginValues
