CONSTANTS
  LEDS <- RedAndWhite
  MAX_BRIGHTNESS = 1
  Posts <- SomeOfThem
  First <- White
  Preset0 <- White
  Between = between
SPECIFICATION FairSpec
INVARIANTS ShowsNewest ManualExpires
PROPERTY Shines
