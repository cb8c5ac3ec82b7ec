------------------------------- MODULE MCQueries -------------------------------
(* The queries on small databases.  Two ids of jobs and two of runs start  *)
(* with the same digit, so that it means one of them, or neither.          *)
EXTENDS Queries

Do(op, name) == [op |-> op, name |-> name, state |-> "any", limit |-> 2]

ListOf(state, limit) == [op |-> "list", name |-> 0, state |-> state, limit |-> limit]

Until(ends, js, rs, steps, deaths, starts, commands) ==
  [jobs |-> js, runs |-> rs, ends |-> ends, steps |-> steps, deaths |-> deaths,
   starts |-> starts, commands |-> commands]

Work(js, rs, steps, deaths, starts, commands) ==
  Until(4, js, rs, steps, deaths, starts, commands)

MCLoads ==
  {Work({11}, {12}, 0, 1, 1, <<Do("run_yes", 11), Do(query, 1)>>) : query \in {"output", "show"}}
    \cup {Work({11}, {12}, 0, 1, 1, <<Do("cancel", 11), Do("output", 1)>>),
          Work({11}, {12}, 0, 0, 2, <<Do("rm_cancel", 11), Do("output", 12)>>)}
    \cup {Work({11}, {12}, 0, 0, 2, <<Do("rm_keep", 11), Do("output", n)>>) : n \in {11, 12}}
    \cup {Work({21}, {12, 13}, 0, 0, 0, <<Do("output", 1)>>),
          Work({11, 14}, {}, 0, 0, 0, <<Do("show", 1)>>),
          Until(2, {11, 14}, {12, 13}, 0, 0, 0, <<Do("ps", 0)>>)}
    \cup {Work({11}, {12, 22}, 0, 0, 1, <<Do("run_yes", 11)>>),
          Until(3, {11, 14}, {12, 13}, 0, 0, 0, <<Do("history", 0)>>),
          Until(5, {11}, {12}, 0, 0, 1, <<Do("history", 0)>>),
          Work({11}, {}, 0, 0, 1, <<Do("cancel", 11), Do("show", 1)>>)}
    \cup {Work({21}, {12, 22}, 0, 0, 1, <<Do(query, n)>>) :
            query \in {"history", "ps"}, n \in {0, 2}}
    \cup {Work({11}, {12}, 0, 0, 0, <<Do("cancel", 11), Do(again, 1)>>) :
            again \in {"cancel", "rm_cancel"}}
    \cup {Work({11, 21}, {}, 0, 0, 1, <<first, Do("rm", 1)>>) :
            first \in {Do("list", 0), ListOf("missed", 3), ListOf("any", 4), Do("output", NotAnId)}}
    \cup {Work({11}, {}, 1, 0, 2, <<Do("run", 1), Do(query, 1)>>) :
            query \in {"list", "show", "output"}}
===============================================================================
