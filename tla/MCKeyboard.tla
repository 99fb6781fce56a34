----------------------------- MODULE MCKeyboard -----------------------------
EXTENDS Keyboard

\* A key that changes with the symbol layer, and in Hid mode with the other.
SomeKeys == {"semicolon"}
AllFaults == FaultNames

===============================================================================
