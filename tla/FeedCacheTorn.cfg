CONSTANTS
  none = none
  many = many
  lots = lots
  html = html
  Urls = {feed}
  Bodies = {none, many, lots, html}
  Malformed = {html}
  Entries <- BodyEntries
  Cut <- Beginnings
  LargeFeed = 4
  AllowEmpty = TRUE
  Refresh = 1
  MaxAge = 2
  Attempts = 3
  MaxTime = 2
SPECIFICATION Spec
INVARIANTS
  FailedRefreshesUseTheCache
