SPECIFICATION Spec
CONSTANTS
  c1 = c1
  c2 = c2
  c3 = c3
  home = home
  about = about
  welcome = welcome
  hero = hero
  logo = logo
  m1 = m1
  m2 = m2
  None = None
  Crawl = {c1, c2, c3}
  Url = {home, about}
  Title = {welcome}
  File = {hero, logo}
  Media = {m1, m2}
  Results <- Sites
  Prefixed <- SameMedia
  Inside <- SameFile
  Ai = TRUE
  MaxIgnored = 1
  Faults = {"database"}
INVARIANTS OneRowPerPage
CHECK_DEADLOCK FALSE
