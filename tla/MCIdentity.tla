----------------------------- MODULE MCIdentity -----------------------------
(* Identity for TLC: systems and procedures. The landing page has no links,  *)
(* a link that is not last, links below a path that contains the name of a   *)
(* kind, so that all of them seem to lead to the systems. Resources move to  *)
(* the second page, have self links or none, and share a self link.          *)
EXTENDS Identity

MCKinds == <<"systems", "procedures">>

Leads(to, names) == [to |-> to, names |-> names]
MCLandings ==
  {<<>>,
   <<Leads(Absent, {"systems"}), Leads("systems", {"systems"}),
     Leads("procedures", {"procedures"})>>,
   <<Leads("systems", {"systems"}), Leads("procedures", {"systems", "procedures"})>>,
   <<Leads("systems", {"systems"}), Leads(Absent, {"systems"})>>}

Listed(page, self) == [page |-> page, self |-> self]
MCForm ==
  [r \in Resource |->
     CASE r = <<"systems", "a">> ->
            {Listed({}, Absent), Listed({"offset"}, Absent), Listed({}, "a")}
       [] r = <<"systems", "b">> -> {Listed({}, "a")}
       [] r = <<"procedures", "b">> -> {Listed({}, Absent), Listed({}, "b")}
       [] OTHER -> {}]

=============================================================================
