--------------------------- MODULE MCDeviceControl ---------------------------
(* Small instances of DeviceControl: values of its constants.              *)
EXTENDS DeviceControl

CONSTANTS x, y

NoneOrOne  == {<<>>, <<x>>, <<y, x>>}  \* with a field of one character: x, y
TwoSerials == {<<x>>, <<y>>}
=============================================================================
