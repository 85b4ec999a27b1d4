--------------------------- MODULE MCCameraRemote ---------------------------
EXTENDS CameraRemote

CONSTANTS s1, s2, c1, c2, n1, f1

MakeOfBody == [c \in {s1, s2, c1, c2, n1, f1} |->
                CASE c \in {s1, s2} -> "Sony" [] c \in {c1, c2} -> "Canon"
                  [] c = n1 -> "Nikon" [] c = f1 -> "Fuji"]
=============================================================================
