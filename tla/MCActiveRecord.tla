--------------------------- MODULE MCActiveRecord ---------------------------
(***************************************************************************)
(* Tables for TLC: those of internal/test/model.go, with the DEFAULTs and  *)
(* triggers of internal/test/testdata/test-schema.sql.                     *)
(***************************************************************************)
EXTENDS Counting, TLC

Plain(cols, pk) ==
    [cols |-> cols, primaryKey |-> pk, initByStorage |-> {},
     updateByStorage |-> {}, disableInsert |-> {}, disableUpdate |-> {},
     mutators |-> {}, sqlValue |-> {}, updateOnConflict |-> FALSE,
     onConflictDoNothing |-> FALSE, disableActiveRecord |-> FALSE]

Users ==
    [Plain({"id", "name", "post_count", "created_at", "updated_at"}, {"id"})
        EXCEPT !.initByStorage = {"id", "post_count", "created_at", "updated_at"},
               !.updateByStorage = {"updated_at"},
               !.disableUpdate = {"created_at"},
               !.mutators = {"post_count"}]

\* An upserted table: ext_links, with a counter that the INSERT writes like that
\* of user_views.  (users.type is treated like name and ext_links.status like
\* user_options.flag; they are left out to keep the state space small.)
Links ==
    [Plain({"user_id", "ext_id", "link_count", "modified_at", "refreshed_at"},
           {"user_id", "ext_id"})
        EXCEPT !.initByStorage = {"modified_at", "refreshed_at"},
               !.updateByStorage = {"refreshed_at"},
               !.mutators = {"link_count"},
               !.sqlValue = {"modified_at"},
               !.updateOnConflict = TRUE]

\* The declaration of ext_links: its counter starts from the DEFAULT.
ExtLinks == [Links EXCEPT !.initByStorage = @ \cup {"link_count"}]

Seen ==
    [Plain({"user_id", "seen_at"}, {"user_id"})
        EXCEPT !.initByStorage = {"seen_at"}, !.onConflictDoNothing = TRUE]

\* seen, with a counter of how often: that of user_views, not upserted.
Views ==
    [Plain({"user_id", "view_count", "seen_at"}, {"user_id"})
        EXCEPT !.initByStorage = {"seen_at"},
               !.mutators = {"view_count"},
               !.onConflictDoNothing = TRUE]

\* now() and the other DEFAULTs are values no setter stores.
DefaultOf(t, d) ==
    [f \in t.cols \ t.primaryKey |-> IF f \in t.mutators THEN d ELSE 2]
UsersDefault    == DefaultOf(Users, 1)
LinksDefault    == DefaultOf(Links, 0)
ExtLinksDefault == DefaultOf(ExtLinks, 1)
SeenDefault     == DefaultOf(Seen, 0)
ViewsDefault    == DefaultOf(Views, 0)

Symmetry == Permutations(Client) \cup Permutations(Key)
=============================================================================
