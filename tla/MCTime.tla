------------------------------- MODULE MCTime -------------------------------
(* Time around the carries: of a minute, an hour, a day, a month, a year.   *)
EXTENDS Time

At(y, mo, d, h, mi, s) ==
  [year |-> y, month |-> mo, day |-> d, hour |-> h, min |-> mi, sec |-> s]

MCStarts == {At(2017, 3, 9, 10, 58, 57), At(2017, 3, 9, 19, 59, 57), At(2017, 3, 9, 23, 59, 57),
             At(2017, 1, 31, 23, 59, 57), At(2016, 2, 28, 23, 59, 58), At(2017, 11, 30, 23, 59, 57),
             At(2017, 12, 31, 23, 59, 57)}
=============================================================================
