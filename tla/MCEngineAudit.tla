--------------------------- MODULE MCEngineAudit ----------------------------
(***************************************************************************)
(* Instances of EngineAudit for TLC: a page engine, a site engine and the  *)
(* three that depend on them; tier 1 alone, with more engines than         *)
(* threads; the later tiers alone; nothing.                                *)
(***************************************************************************)
EXTENDS EngineAudit, TLC

Later == {"seo_scoring", "opportunity", "recommendation"}
Two   == {"technical_seo", "site_architecture"}
Three == Two \cup {"backlink_intelligence"}
Several == {Two \cup Later, Three, Later, {}}
=============================================================================
