SPECIFICATION FairSpec
CONSTANTS
  p1 = p1  p2 = p2  en_US = en_US  zh_CN = zh_CN
  Process <- Processes
  FreedOnDeath = TRUE
  Locale = {en_US, zh_CN}
  SystemLocale = zh_CN
  Unset = unset
PROPERTY LanguageTakesEffect
