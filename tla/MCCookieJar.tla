----------------------------- MODULE MCCookieJar -----------------------------
(* CookieJar on small instances for TLC: a site and a host under it, and     *)
(* a plain file with one cookie. The .cfg files say how many the jar holds. *)
EXTENDS CookieJar

MCHosts == {"www", "top"}
MCCovers == {<<"www", "www">>, <<"top", "top">>, <<"www", "top">>}
MCSiteOf == [h \in MCHosts |-> "top"]

(* One live cookie in an older build's plain file. *)
MCLegacy == << [name |-> "a", value |-> 1, domain |-> "top", host_only |-> TRUE,
                http_only |-> FALSE, expires |-> 3, created |-> 1, last_access |-> 1] >>
MCNoLegacy == << >>
=============================================================================
