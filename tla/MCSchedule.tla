----------------------------- MODULE MCSchedule -----------------------------
(* Settings for the runs: masks that have the first and the last, several,  *)
(* one, all or none of the days or months.  The timer reaches over a week   *)
(* and over a month and not over two months, as 2^32 ms do.                 *)
EXTENDS Schedule

Weekly == [type : {"DAYS_OF_WEEK"}, slot : {0, 1}, repeat_days : {0, 2, 65, 127}]
          \cup [type : {"RELATIVE"}, seconds : {1, 5, 40}]

Dates(every) == [type : {"DATE"}, slot : {0, 1}, day : {1, 5}, year : {0, 1},
                 repeat_months : {33, 2049, 4095}, repeat_every_year : every]
NextDate     == [type : {"DATE"}, slot : {0, 1}, day : {1, 5}, year : {0},
                 repeat_months : {0}, repeat_every_year : {FALSE}]

Yearly    == Dates({TRUE}) \cup NextDate
Repeating == Weekly \cup Yearly
NotYearly == Dates({FALSE})
=============================================================================
