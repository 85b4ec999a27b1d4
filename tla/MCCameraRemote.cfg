SPECIFICATION RemoteSpec
CONSTANTS
  s1 = s1  s2 = s2  c1 = c1  c2 = c2  n1 = n1  f1 = f1
  Cameras = {s1, s2, c1, c2, n1, f1}
  MakeOf <- MakeOfBody
  NoCamera = NoCamera
INVARIANTS LinkIsTheChosenOne CameraFollowsBulb
