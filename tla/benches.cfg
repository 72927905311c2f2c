\* Six ticks per clock: a bit_hold is 2812.5 clocks at 27 MHz, 5208.33 at 50 MHz.
CONSTANTS
    WordBits = 24
    NoMsg = NoMsg
    DEVICE_DEBUG = FALSE
    LOG_ENABLED = FALSE
    Ticks = 6
SPECIFICATION Spec
INVARIANTS
    AssertionsHold
    SamplesItsBit
PROPERTIES
    TakesItsBit
    NothingUnasserted
