-------------------------------- MODULE MCClock --------------------------------
(* A small calendar: years of three months, one of them longer and one shorter *)
(* than diffTimeMillis() takes a month for.                                 *)
EXTENDS Clock

MCdaytab == <<<<4, 2, 4>>, <<4, 3, 4>>>>

(* Before the end of a day, before the count of milliseconds turns over, and *)
(* before the ends of a long month, of February and of the last year.        *)
MCBegins == {<<1, 1, 1, 1, 1, 0>>, <<0, 1, 0, 4, 3, 0>>, <<0, 1, 1, 4, 1, 0>>,
             <<1, 1, 1, 3, 2, 0>>, <<1, 1, 1, 4, 3, 1>>}

MCStrays == {-1, 0, 3}
=============================================================================
