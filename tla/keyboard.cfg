SPECIFICATION Spec
CONSTANTS
  N = 3
  LineMax = 1
  Keys = {"a", "enter", "backspace", "rctrl", "shift", "caps"}
  MaxEvents = 4
  MaxWire = 1
CHECK_DEADLOCK FALSE
INVARIANTS TypeOK KeysAsTyped LedShowsCaps
