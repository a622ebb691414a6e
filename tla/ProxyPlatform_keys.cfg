SPECIFICATION Spec
CONSTANTS
  Desktop = {"gnome", "kde", "mac", "windows"}
  Address = {"10801", "10802"}
  Interface = {"wifi", "ethernet"}
  None = None
INVARIANT RecognisedIsWhole
INVARIANT AppliedIsRecognised
INVARIANT RestoredIsGivenBack
