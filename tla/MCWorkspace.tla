---------------------------- MODULE MCWorkspace ----------------------------
(* Workspace on a small instance: a group with one member, its principal,   *)
(* and a user of his own.                                                   *)
EXTENDS Workspace, TLC

CONSTANTS g, m, u, a1, t1, n1, n2, d1, d2, r1, c1, c2

MCCategory == {<<"work">>, <<"work", "plans">>}

\* The beginnings of words: the first text and the categories, a later text and
\* the block, two texts and one category.
MCToken == {[texts |-> {0}, words |-> {"work"}],
            [texts |-> {2}, words |-> {"x"}],
            [texts |-> {1, 3}, words |-> {"plans"}]}

Ctx(actor, channel, readable, stepUp, confirmed) ==
  [actor |-> actor, channel |-> channel, readable |-> readable,
   shared |-> IF channel = "group_chat" THEN g ELSE NoUser,
   member |-> readable # {}, manager |-> channel = "admin_web",
   stepUp |-> stepUp, confirmed |-> confirmed]

\* The member writes to the group, and confirms deletions on the pages of the
\* administration after a step-up; the other user writes in private.
MCContext == {Ctx(m, "group_chat", {g}, FALSE, FALSE),
              Ctx(m, "admin_web", {g}, TRUE, TRUE),
              Ctx(u, "private_chat", {}, FALSE, TRUE)}

\* Nothing tells one caller from the other.
MCSymmetry == Permutations({c1, c2})

=============================================================================
