------------------------------ MODULE MCScrape ------------------------------
EXTENDS Scrape

\* Names with everything in them that the text format escapes.
Submitted ==
  (1 :> [user |-> <<"ann">>, queue |-> <<"night">>, name |-> <<"a", Backslash, "n", "b">>,
         project |-> <<Quote, "p", Quote>>, application |-> NoText, slots |-> 2,
         request |-> << <<>>, <<5, 15>> >>]) @@
  (2 :> [user |-> <<"ann">>, queue |-> <<"night">>, name |-> <<"a", Newline, "b">>,
         project |-> <<Backslash>>, application |-> <<Backslash, Quote>>, slots |-> 0,
         request |-> << <<20000>> >>])

\* The first job can be dispatched; the second one waits.
SomeHosts == (1 :> {<< <<"h1">>, <<"h2">>, NoText, <<"h1">> >>}) @@
             (2 :> {})
SomeUsage == {[cpu |-> 3, maxMem |-> 1, swap |-> 0]}

\* The external command: nothing; details of a job that LSF reports as well, and
\* the rest of what it can return; a queue twice.
Detail ==
  [id |-> 1, status |-> <<"RUN">>, user |-> <<"ann">>, queue |-> <<"night">>,
   name |-> NoText, project |-> NoText, application |-> NoText, execution_host |-> NoText,
   start |-> 0, end |-> 0, exit |-> 0, requestedCPU |-> 0, requestedMemKB |-> 0,
   cpuTime |-> 4, memoryKB |-> 0, swapKB |-> 0, gpuRequested |-> 2, gpuUsed |-> 1]
Night ==
  [name |-> <<"night">>, status |-> <<"Open", ":", "Active">>, priority |-> 30,
   total |-> 4, pending |-> 1, running |-> 2, suspended |-> 3, maxJobs |-> 0,
   open |-> {TRUE}, active |-> {}]
Host ==
  [name |-> <<"h1">>, status |-> <<"ok">>, total |-> 3, running |-> 2, suspended |-> 1,
   maxJobs |-> 8, closed |-> {FALSE}, load |-> (<<"ut">> :> 5) @@ (<<Quote>> :> 6)]
Cluster == [name |-> <<"c">>, master |-> <<"m">>, status |-> <<"ok">>, masterUp |-> {TRUE}]
License == [feature |-> <<"f">>, total |-> 9, used |-> 5, free |-> 4]
Resource(where) == [name |-> <<"r">>, type |-> <<"t">>, location |-> where,
                    total |-> 9, used |-> 5, free |-> 4]
SomePayloads ==
  {NoData,
   [jobs |-> <<Detail>>, queues |-> <<Night, [Night EXCEPT !.total = 5]>>, hosts |-> <<Host>>, cluster |-> {Cluster},
    licenses |-> <<License>>, resources |-> <<Resource(<<"h1">>), Resource(<<"h2">>)>>]}

Clocks    == {-1, 1}
TenKB     == 1000000
OnAmd64   == {-1000000}
=============================================================================
