SPECIFICATION Spec
CONSTANTS
  blank = blank  map = map  Table = table  main = main  baseline = baseline
  Page <- Pages
  Blank = blank
  NullPage = null
  Unrouted <- Unknown
  Opens <- Buttons
  Side <- Sides
  PropertySide <- Right
  station = station  obsfile = obsfile
  List <- Lists
  FirstList = station
  NoList = none
INVARIANTS TypeOK CurrentTabIsShown OneTabPerPage
PROPERTIES OnlyShortcutsPart OnlyTapsPart
