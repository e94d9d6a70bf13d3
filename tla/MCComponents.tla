----------------------------- MODULE MCComponents -----------------------------
(***************************************************************************)
(* Instances of Components for TLC: names for rows, menus, tables, threads *)
(* and requests, and the functions that Components.cfg gives to constants. *)
(***************************************************************************)
EXTENDS Components, TLC

CONSTANTS
  r1, r2, r3, s1, s2,             \* rows and requests of a page
  m1, m2, m3,                     \* menus
  ta, tb, tc, x, y, z,            \* tables and texts
  ca, cb, cc, cd, ce,             \* columns
  q1, q2, p1, p2,                 \* requesters and removers
  e1, e2, e3,                     \* entries of the list
  u1, ga, gb                      \* a user and two roles

\* One role has the only menu, and the user has both roles.
GrantedFirst == ga :> {m1} @@ gb :> {}
HeldFirst == u1 :> {ga, gb}

\* The alias of tc has brackets, with a name of no table in them.
ThreeTexts == ta :> ta @@ tb :> tb @@ tc :> x

\* In ta two comments start alike, and one has the name of another column in brackets; in
\* tb one comment has a comma and one an apostrophe.  They share a column.
ThreeTables == ta :> {ca, cb, cc} @@ tb :> {cb, cd, ce} @@ tc :> {ca}
Comment(text, bracket) == [text |-> text, bracket |-> bracket]
Comments == ca :> Comment(x, Plain)
         @@ cb :> Comment(y, Plain)
         @@ cc :> Comment(x, cb)
         @@ cd :> Comment(z, Plain)
         @@ ce :> Comment(x, Cut)

\* Two entries of one task and one of another.
ThreeEntries == e1 :> ta @@ e2 :> ta @@ e3 :> tb
=============================================================================
