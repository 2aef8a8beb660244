----------------------------- MODULE MCEventLoop -----------------------------
\* Two hats, a builder and a reviewer of what it builds.
EXTENDS EventLoop

MCHats == {"builder", "reviewer"}
MCRank == [h \in MCHats |-> IF h = "builder" THEN 1 ELSE 2]
MCTopics == SystemTopics \cup {"task.start", "build.done", "build.task", "LOOP_COMPLETE", "loop.cancel"}
MCTriggers == [h \in MCHats |-> IF h = "builder" THEN {"build.task"} ELSE {"build.done"}]
MCPublishes == [h \in MCHats |-> IF h = "builder" THEN {"build.done"} ELSE {"LOOP_COMPLETE"}]
\* Each hat may leave its work unreported.
DefaultsOfAll == [h \in MCHats |-> IF h = "builder" THEN "build.done" ELSE "LOOP_COMPLETE"]
NoDefaults == [h \in {} |-> "build.done"]
LimitOne == [h \in MCHats |-> 1]
NoLimits == [h \in {} |-> 1]

Line(t, p) == [topic |-> t, payload |-> p]
Ends == {Line("LOOP_COMPLETE", "text"), Line("loop.cancel", "text")}
WorkAndEnds == {Line("build.done", "pass"), Line("build.done", "text")} \cup Ends
AnyLine == WorkAndEnds \cup {Line("build.task", "text"), Garbage}
Output(s, m, p) == [success |-> s, mentions |-> m, promise |-> p, printed |-> None]
Prints(e) == [Output(TRUE, FALSE, FALSE) EXCEPT !.printed = e]
Quiet == {Output(TRUE, FALSE, FALSE), Output(FALSE, FALSE, FALSE)}
Talking == Quiet \cup {Prints(Line("LOOP_COMPLETE", "text")), Output(TRUE, FALSE, TRUE),
                       Output(TRUE, TRUE, FALSE)}
Mentions == {Output(TRUE, TRUE, FALSE), Output(TRUE, FALSE, FALSE), Output(TRUE, FALSE, TRUE)}
=============================================================================
