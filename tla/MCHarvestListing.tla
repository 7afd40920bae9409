-------------------------- MODULE MCHarvestListing --------------------------
(***************************************************************************)
(* Values for the constants of HarvestListing.                             *)
(***************************************************************************)
EXTENDS HarvestListing, TLC

CONSTANTS r1, anna, ben

ThreeIds == 1..3
OneHive == {1}
ThreeHives == {1, 2, 3}
OneHiveOwner == [h \in OneHive |-> anna]
\* anna owns two hives, ben a third.
ThreeHiveOwners == (1 :> anna) @@ (2 :> ben) @@ (3 :> anna)

Date(y, m, d) == [year |-> y, month |-> m, day |-> d]
LeapDay == Date(2024, 2, 29)
DayAfter == Date(2024, 3, 1)

Stored(product, amount, date, made) ==
  [product |-> product, amount |-> amount, date |-> date, made |-> made]
OneBody == {Stored("HONEY", 5, LeapDay, 1)}
\* The earlier record is of the later day, and they differ in all a filter
\* looks at.
TwoBodies == {Stored("HONEY", 5, LeapDay, 2), Stored("WAX", 2, DayAfter, 1)}
\* One in the range of FirstReport, one that an update takes out of it.
MovedBodies == {Stored("HONEY", 5, LeapDay, 1), Stored("HONEY", 5, DayAfter, 1)}

\* A query without filters, and changes to it.
Plain(op, u, h, n, limit) ==
  [op |-> op, user |-> u, hive |-> h, page |-> n, limit |-> limit, product |-> {},
   operator |-> {}, amount |-> {}, from |-> {}, to |-> {}, order |-> {}]
Between(q, from, to) == [q EXCEPT !.from = {from}, !.to = {to}]

FirstReport == {Between(Plain("report", anna, 1, 1, 1), LeapDay, LeapDay)}

Filtered(q) ==
  {[q EXCEPT !.product = {"HONEY"}, !.from = {LeapDay}],
   [q EXCEPT !.operator = {"lt"}, !.amount = {5}, !.order = {"desc"}],
   [q EXCEPT !.to = {LeapDay}, !.order = {"asc"}]}
Refused(q) ==
  {[q EXCEPT !.amount = {2}], Between(q, DayAfter, LeapDay),
   [q EXCEPT !.from = {Date(0, 12, 30)}]}

Mixed ==
  {Between(Plain("report", anna, 1, 1, 1), LeapDay, to) : to \in {LeapDay, DayAfter}}
    \cup {Plain("list", anna, h, 1, 2) : h \in {1, 2}}
    \cup {[Plain("listall", anna, Null, n, 2) EXCEPT !.order = {"asc"}] : n \in {1, 2}}
    \cup {Plain("listall", ben, Null, 1, 2)}
    \cup Filtered(Plain("listall", anna, Null, 1, 2))
    \cup Refused(Plain("list", anna, 1, 1, 2))
\* One of them over a day that PostgreSQL does not have.
AllKinds ==
  FirstReport
    \cup {Plain("list", anna, 1, 1, 1), Plain("listall", anna, Null, 1, 1),
          [Plain("list", anna, 1, 1, 1) EXCEPT !.from = {Date(0, 12, 30)}]}
=============================================================================
