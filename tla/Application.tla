----------------------------- MODULE Application -----------------------------
(***************************************************************************)
(* One command: paket_application_run of src/src/application.c, with the   *)
(* catalog and metadata calls it makes (CatalogClient) and the download    *)
(* they lead to (Download).  What is printed is left out but for the       *)
(* entries of a listing and the last line of a download.                   *)
(***************************************************************************)
EXTENDS Download, CatalogClient

CONSTANT Homes  \* bound: user areas the command is started in

VARIABLES argc,    \* of the arguments that are no options
          first,   \* argv[1]: wild, name or empty
          stage,   \* dispatch, listing, resolving, fetching, downloading
          status   \* running, then success (0) or failure (1)

commandVars == <<argc, first>>
allVars == <<vars, clientVars, commandVars, stage, status>>

\* What is on the disk matters to a download only.
ApplicationInit == /\ DownloadInit /\ ClientInit
                   /\ home \in Homes
                   /\ argc \in 1 .. 4 /\ first \in {"wild", "name", "empty"}
                   /\ argc # 3 => target = home /\ directory = [u \in Users |-> Absent]
                   /\ stage = "dispatch" /\ status = "running"

Exit(code) == status' = code /\ UNCHANGED <<commandVars, stage>>
Enter(next) == stage' = next /\ UNCHANGED <<commandVars, status>>
At(s) == stage = s /\ status = "running"

\* paket_print_usage.
PrintUsage == /\ At("dispatch") /\ argc \notin 1 .. 3
              /\ Exit("failure")
              /\ UNCHANGED <<vars, clientVars>>

\* show_catalog, of everything or of what matches.
ShowCatalog ==
  /\ At("dispatch")
  /\ \/ argc = 1 /\ VisitCatalog(All, "print")
     \/ argc = 2 /\ first = "wild" /\ \E p \in Patterns : VisitCatalog(p, "print")
  /\ Enter("listing")
  /\ UNCHANGED vars

CatalogShown == /\ At("listing") /\ ~Running
                /\ Exit(IF outcome = "ok" THEN "success" ELSE "failure")
                /\ UNCHANGED <<vars, clientVars>>

\* A download of many packages at once is refused before anything is sent.
NoWildcards == /\ At("dispatch") /\ argc = 3 /\ first = "wild"
               /\ Refuse /\ Exit("failure")
               /\ UNCHANGED clientVars

\* resolve_and_fetch.
Resolve == /\ At("dispatch") /\ argc \in {2, 3} /\ first # "wild"
           /\ \/ first = "empty" /\ RefuseEmpty
              \/ first = "name" /\ \E n \in Names : VisitCatalog({n}, "resolve")
           /\ Enter("resolving")
           /\ UNCHANGED vars

Fetch == /\ At("resolving") /\ outcome = "ok"
         /\ IF entry.id = NoText THEN RefuseEmpty ELSE FetchInfo
         /\ Enter("fetching")
         /\ UNCHANGED vars

Converse == /\ At("listing") \/ At("resolving") \/ At("fetching")
            /\ Walk
            /\ UNCHANGED <<vars, commandVars, stage, status>>

\* The end of a command that shows nothing: of a download too.
GiveUp == /\ At("resolving") \/ At("fetching")
          /\ ~Running /\ outcome # "ok"
          /\ IF argc = 3 THEN Refuse ELSE UNCHANGED vars
          /\ Exit("failure")
          /\ UNCHANGED clientVars

\* print_package_info.
ShowInfo == /\ At("fetching") /\ outcome = "ok" /\ argc = 2
            /\ Exit("success")
            /\ UNCHANGED <<vars, clientVars>>

\* download_package: a package without downloads, or a destination that
\* paket_make_target_path refuses or paket_file_create cannot read (any may be
\* one).
RefuseDownload == /\ At("fetching") /\ outcome = "ok" /\ argc = 3
                  /\ Refuse /\ Exit("failure")
                  /\ UNCHANGED clientVars

\* From here on the client's answers are used no more, and are forgotten.
StartDownload ==
  /\ At("fetching") /\ outcome = "ok" /\ argc = 3 /\ info.stored
  /\ CreateTarget /\ Enter("downloading")
  /\ call' = "none" /\ visitor' = "print" /\ asked' = {} /\ items' = <<>>
  /\ page' = <<>> /\ damaged' = FALSE /\ cursor' = 0 /\ next_cursor' = 0
  /\ strayed' = FALSE
  /\ listed' = <<>> /\ entry' = NoEntry /\ priority' = 0 /\ info' = NoInfo
  /\ outcome' = "none"

Transfer == /\ At("downloading")
            /\ \/ Ask \/ ExchangeFails \/ ResponseRefused \/ DiskRefuses
               \/ ChunkWritten \/ CloseTarget \/ RemoveTarget
            /\ UNCHANGED <<clientVars, commandVars, stage, status>>

DownloadEnds == /\ At("downloading") /\ pc = "done"
                /\ Exit(IF reported = "complete" THEN "success" ELSE "failure")
                /\ UNCHANGED <<vars, clientVars>>

Step == PrintUsage \/ ShowCatalog \/ CatalogShown \/ NoWildcards \/ Resolve
        \/ Fetch \/ Converse \/ GiveUp \/ ShowInfo \/ RefuseDownload
        \/ StartDownload \/ Transfer \/ DownloadEnds

Exited == status # "running" /\ UNCHANGED allVars

ApplicationNext == Step \/ Exited

\* Every call returns: libsquid's exchange times out by itself.
ApplicationSpec ==
  ApplicationInit /\ [][ApplicationNext]_allVars /\ WF_allVars(Step)
-----------------------------------------------------------------------------
\* Neither pages nor chunks that bring it no further keep the program running for
\* ever.  Every run ends, however a server cuts its answers and whatever cursors it
\* names, but for one case: its cursors go back again and again.
\* visit_catalog_model and paket_fetch_info refuse only a cursor equal to the last.
GoesBack == cursor' < cursor
Terminates == []<><<GoesBack>>_cursor \/ <>(status # "running")
=============================================================================
