CONSTANTS
  Threads = {t1, t2}
  firstOwner = t1
  Nobody = nobody
  Is64 = FALSE
  Half = 2
  Limit = 4
  MaxOwned = 5
SPECIFICATION ObjectsSpec
INVARIANTS CountIsExact ObjectsEndOnce WideCountsAgree CollectionsAreAbstract UrlsAgree  ValuesAgree
PROPERTY RequestsEnd
CHECK_DEADLOCK FALSE
