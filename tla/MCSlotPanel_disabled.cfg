SPECIFICATION Spec
CONSTANTS
  AiChannels <- McAiChannels
  RtdChannels <- McRtdChannels
  DqChannels <- McDqChannels
  EmChecks = {"re_cur_dir", "diag_over_cur"}
  EmSliders = {"vt_second_vol"}
  Modules <- McModules
  Tried <- McTried
  Clicked <- McClicked
  Typed <- McTyped
  DeviceConfigs <- McDeviceConfigs
CONSTRAINT FewChanges
INVARIANT DisabledFalseByEditing
