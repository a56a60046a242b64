----------------------------- MODULE MCPackage -----------------------------
(***************************************************************************)
(* Packages for TLC.                                                       *)
(***************************************************************************)
EXTENDS Package, TLC

CONSTANTS User, Post, View

\* Each model has a DAO of its own, one of them under a name that was asked for.
Models3      == {User, Post, View}
Names3       == {"UserDAO", "PostDAO", "Views"}
OwnNames3    == User :> "UserDAO" @@ Post :> "PostDAO" @@ View :> "Views"
AskedNothing == [m \in Model |-> NoName]
AskedOne     == [AskedNothing EXCEPT ![View] = "Views"]
Indices3     == User :> {"ID"} @@ Post :> {"ID", "UserIDType"} @@ View :> {"ID"}
KeyStructs3  == User :> {} @@ Post :> {"UserIDType"} @@ View :> {}

\* All models of the package share a DAO.
NamesShared  == Names3 \cup {"DAO"}
=============================================================================
