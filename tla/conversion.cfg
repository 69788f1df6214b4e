SPECIFICATION FairSpec
CONSTANTS
  Images <- MCImages
  MaxInt = 24
PROPERTIES SupportedFormatsAreConverted
CHECK_DEADLOCK FALSE
