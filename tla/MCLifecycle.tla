---------------------------- MODULE MCLifecycle ----------------------------
(* Four clients of one user, one of them on the PostgreSQL listener, with a limit of one
   and two permits per listener; two login requests at a time.  Time runs for the counts
   only in the behaviours that are about them, over the end of a day of two hours of two
   minutes; the retention is one day. *)
EXTENDS Lifecycle

MCBudgets ==
  { [arrivals |-> 4, attempts |-> 0, queries |-> 0, signals |-> 1, restarts |-> 1, faults |-> 0,
     start |-> LastMinute, analytics |-> {}, up |-> {}, server |-> "accept"],
    [arrivals |-> 0, attempts |-> 4, queries |-> 0, signals |-> 0, restarts |-> 1, faults |-> 0,
     start |-> LastMinute, analytics |-> {}, up |-> {}, server |-> "accept"],
    [arrivals |-> 2, attempts |-> 0, queries |-> 2, signals |-> 1, restarts |-> 1, faults |-> 1,
     start |-> LastMinute, analytics |-> {"storage"}, up |-> {}, server |-> "accept"],
    [arrivals |-> 0, attempts |-> 0, queries |-> 1, signals |-> 0, restarts |-> 1, faults |-> 1,
     start |-> 3, analytics |-> {"timeseries"}, up |-> PgClients, server |-> "accept"],
    [arrivals |-> 0, attempts |-> 0, queries |-> 2, signals |-> 0, restarts |-> 0, faults |-> 0,
     start |-> 5, analytics |-> {"timeseries"}, up |-> PgClients, server |-> "accept"],
    [arrivals |-> 2, attempts |-> 0, queries |-> 2, signals |-> 1, restarts |-> 1, faults |-> 1,
     start |-> LastMinute, analytics |-> {"storage"}, up |-> {}, server |-> "pending"] }
=============================================================================
