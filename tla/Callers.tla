------------------------------ MODULE Callers -------------------------------
(* The threads that call the runtime's exported functions: its own workers, *)
(* goroutine threads and the threads of the program that embeds it.         *)
CONSTANTS
    Threads,
    None            \* no thread

ASSUME ThreadsAssumption == None \notin Threads
=============================================================================
