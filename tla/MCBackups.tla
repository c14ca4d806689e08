------------------------------- MODULE MCBackups -------------------------------
(* Model-checking instance of Backups. *)
EXTENDS Backups

CONSTANTS anna, boris, shop, depot, gate, door

MCAdmins == {anna, boris}
MCSites == {shop, depot}
MCNames == {gate, door}

Object(id, uid, site, name, kind, entry, parts) ==
    [id |-> id, uid |-> uid, site |-> site, name |-> name, kind |-> kind, enabled |-> TRUE,
     entry |-> entry, parts |-> parts, runtime |-> FALSE, raced |-> FALSE]
Place(id, uid, name, schedule) ==
    [id |-> id, uid |-> uid, name |-> name, schedule |-> schedule, enabled |-> TRUE]
Always == [id |-> 0, uid |-> 0, hours |-> "always"]

\* A shop with two routers, one of them its entry, and a depot with a printer.
Furnished(schedule) ==
    [schedules |-> {Always, [id |-> 1, uid |-> 1, hours |-> "weekdays"]},
     sites |-> {Place(1, 2, shop, schedule), Place(2, 3, depot, schedule)},
     targets |-> {Object(1, 4, 1, gate, "network", TRUE, {"metric", "threshold"}),
                  Object(2, 5, 1, door, "network", FALSE, {}),
                  Object(3, 6, 2, gate, "printer", FALSE, {})},
     results |-> {}]

\* The same ids on another server.
Elsewhere ==
    [schedules |-> {Always},
     sites |-> {Place(1, 11, depot, 0)},
     targets |-> {Object(1, 12, 1, door, "printer", FALSE, {}),
                  Object(2, 13, 1, gate, "network", TRUE, {})},
     results |-> {}]

\* A depot whose only printer was deleted while a page still shows it.
Emptied ==
    [schedules |-> {Always}, sites |-> {Place(1, 1, depot, 0)}, targets |-> {}, results |-> {}]
Outdated == [login |-> 1, table |-> "targets", id |-> 1, uid |-> 2]

\* The rows of another server, and an empty one whose administrators are all inactive.
Moved == Archive(FALSE, Elsewhere, TRUE, Elsewhere)
Bare == [NoRows EXCEPT !.schedules = {Always}]
Orphaned == [Archive(FALSE, Bare, FALSE, Bare) EXCEPT !.administered = FALSE]

Situation(rows, next, sent, made) ==
    [db |-> rows, sequence |-> next, born |-> 20, submits |-> sent, jobs |-> made,
     page |-> [a \in MCAdmins |-> NoPage], files |-> {}]
\* Two requests at once, one beside backups and restores, or two with a page that is out of
\* date around a restore.
MCStart ==
    LET full == [schedules |-> 2, sites |-> 3, targets |-> 4]
        few == [schedules |-> 1, sites |-> 2, targets |-> 2]
    IN  {Situation(Furnished(0), full, 0, 2), Situation(Furnished(1), full, 1, 0),
         [Situation(Emptied, few, 0, 1) EXCEPT !.page[boris] = Outdated, !.files = {Orphaned}]}
MCUploads == {Moved, Orphaned}
=============================================================================
