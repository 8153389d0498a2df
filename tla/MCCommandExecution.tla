------------------------ MODULE MCCommandExecution ------------------------
EXTENDS CommandExecution, TLC
CONSTANTS c1, c2, c3, t1, t2

None == [write |-> FALSE, locks |-> FALSE, clean |-> FALSE, commits |-> FALSE,
         raiseIfEmpty |-> FALSE, isolated |-> FALSE, object |-> "datasets"]
Writes == [None EXCEPT !.write = TRUE, !.commits = TRUE]

\* renku dataset add, project edit, run and run --isolation.
AddToDataset == [Writes EXCEPT !.locks = TRUE, !.raiseIfEmpty = TRUE]
EditProject == [Writes EXCEPT !.locks = TRUE, !.object = "project"]
Run == [Writes EXCEPT !.clean = TRUE]
IsolatedRun == [Run EXCEPT !.isolated = TRUE]

\* Two threads, one of which executes two commands.
OneThreadTwice == (c1 :> t1) @@ (c2 :> t1) @@ (c3 :> t2)
OfTheService == {AddToDataset, EditProject}
Mixed == (c1 :> OfTheService) @@ (c2 :> OfTheService)
         @@ (c3 :> OfTheService \cup {Run, IsolatedRun})
=============================================================================
