-------------------------- MODULE MCCrawlPipeline --------------------------
(***************************************************************************)
(* Crawls of a site with the pages home and about for CrawlPipeline.  As   *)
(* in the end-to-end harness, some images have a media id.                 *)
(***************************************************************************)
EXTENDS CrawlPipeline, TLC

CONSTANTS c1, c2, c3, home, about, welcome, hero, logo, m1, m2

Picture(file, blank, media) == [file |-> file, blank |-> blank, media |-> media]
P(url, title, flaws, images) ==
  [url |-> url, title |-> title, flaws |-> flaws, images |-> images]

Before ==
  {P(home, welcome, {},
     <<Picture(logo, TRUE, m2), Picture(hero, TRUE, m1)>>),
   P(about, welcome, {}, <<>>)}
Later ==
  {P(home, None, {}, <<Picture(logo, FALSE, m2), Picture(hero, TRUE, None)>>)}
Sites == {Before, Later}

SameOnly(S) == {<<x, x>> : x \in S}
SameMedia == SameOnly(Media)
SameFile == SameOnly(File)
Symmetry == Permutations(Crawl)
=============================================================================
