SPECIFICATION FairSpec
CONSTANTS
  home = home
  about = about
  old = old
  away = away
  ring = ring
  hidden = hidden
  main = main
  sub = sub
  other = other
  None = None
  c1 = c1
  c2 = c2
  Crawl = {c1, c2}
  Url = {home, about, old, away, ring, hidden}
  Host = {main, sub, other}
  HostOf <- Place
  Domain <- Owner
  Link <- Anchors
  Redirect <- Moved
  Permitted <- Open
  StartUrl = {home}
  Asked = {0, 2, 5}
  MaxPages = 5
  Cap = 2
  Rate = 1
  Overlap = FALSE
  Failures = {"raised", "late", "robots"}
INVARIANTS OnlyPermitted ChainsFaithful CoversTheSite
PROPERTIES Paced CrawlEnds
CHECK_DEADLOCK FALSE
