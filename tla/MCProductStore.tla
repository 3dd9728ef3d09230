-------------------------- MODULE MCProductStore --------------------------
(* The antenna file: its newest release, and the one without a version that  *)
(* is fetched when the index cannot be read and that the user has at hand.    *)
EXTENDS ProductStore

MCProducts == {"atx"}
MCReleases == {"2408", "latest"}
MCNames == {"igs20_2408", "igs20"}
MCNameOf == [r \in MCReleases |-> IF r = "latest" THEN "igs20" ELSE "igs20_2408"]
MCNewest == [p \in MCProducts |-> "2408"]
MCFallback == [p \in MCProducts |-> "latest"]
MCImports == [p \in MCProducts |-> {"latest"}]
MCCrashes == 1
=============================================================================
