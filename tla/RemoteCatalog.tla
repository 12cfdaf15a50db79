--------------------------- MODULE RemoteCatalog ---------------------------
(***************************************************************************)
(* The configured servers of the desktop application: the profiles that    *)
(* the server manager edits and saves (noScribe/main.py,                   *)
(* plugins/remote_profiles.py), the plugins that the registry has for them *)
(* (plugins/factory.py, plugins/registry.py), and the background refresh   *)
(* that makes the second match the first, beside a job that runs.          *)
(*                                                                         *)
(*   saved    remote_backend_profiles and their files: text, enabled       *)
(*   plugins  the remote plugins of the registry, each with the profile it *)
(*            was made from and whether it advertises models               *)
(*   catalog  the servers whose models the menu offers                     *)
(*   form     the server manager: whether it is open, the profile it shows *)
(*            (Nobody for a new one), its entries and whether they are     *)
(*            dirty                                                        *)
(*   refresh  the refresh thread; pending, _remote_model_refresh_pending   *)
(*   job      the job of the queue that is under way, and its backend      *)
(*   due      history: the changes saved since the registry was last busy   *)
(* The GUI thread runs one handler at a time; a handler is one action.     *)
(***************************************************************************)
EXTENDS Naturals, FiniteSets

CONSTANTS
  Servers,  \* profile ids
  Texts,    \* entries (name, URL and key) that from_mapping accepts
  Nobody    \* None, and entries that it refuses, like empty ones

ASSUME CatalogAssumption == Nobody \notin Servers /\ Nobody \notin Texts

VARIABLES saved, plugins, catalog, form, refresh, pending, job, due

catalogVars == <<saved, plugins, catalog, form, refresh, pending, job, due>>

\* RemoteBackendProfile.from_mapping, which raises ValueError for bad entries.
Profile == [text : Texts, enabled : BOOLEAN]

Absent == [text |-> Nobody, enabled |-> FALSE]

NoPlugin == [profile |-> Absent, offers |-> FALSE]

Registered(s) == plugins[s] # NoPlugin

NoRefresh == [at |-> "none", wanted |-> [s \in Servers |-> Absent], todo |-> {}]

NoWork == [at |-> "none", on |-> Nobody]

ClosedForm == [open |-> FALSE, id |-> Nobody, text |-> Nobody,
               enabled |-> TRUE, dirty |-> FALSE]

\* show_profile: the entries are those of the profile, or empty.
Shows(id, profiles) ==
  [open |-> TRUE, id |-> id, dirty |-> FALSE,
   text |-> IF id = Nobody THEN Nobody ELSE profiles[id].text,
   enabled |-> IF id = Nobody THEN TRUE ELSE profiles[id].enabled]

Known(profiles) == {s \in Servers : profiles[s] # Absent}

\* load_remote_profiles and register_remote_profiles when the application
\* starts: a server that cannot be reached is not registered.
CatalogInit ==
  /\ saved \in [Servers -> Profile \cup {Absent}]
  /\ \E reached \in SUBSET Known(saved) :
       plugins = [s \in Servers |->
                    IF s \in reached /\ saved[s].enabled
                      THEN [profile |-> saved[s], offers |-> TRUE]
                      ELSE NoPlugin]
  /\ catalog = {s \in Servers : plugins[s].offers}
  /\ form = ClosedForm
  /\ refresh = NoRefresh /\ pending = FALSE
  /\ job = NoWork /\ due = {}

\* registry.busy
RegistryBusy == job.at = "active"

\* _backend_configuration_busy looks at the states of the jobs too.
ConfigurationBusy == job.at # "none"

-----------------------------------------------------------------------------
(* refresh_remote_models and its thread.                                   *)

\* Fault: a refresh that is asked for during another is forgotten.
AskRefreshOnce ==
  IF refresh.at # "none" \/ RegistryBusy
  THEN UNCHANGED <<refresh, pending>>
  ELSE refresh' = [NoRefresh EXCEPT !.at = "begun"] /\ UNCHANGED pending

\* refresh_remote_models(force=True).
AskRefresh ==
  IF refresh.at # "none"
  THEN pending' = TRUE /\ UNCHANGED refresh
  ELSE /\ UNCHANGED pending
       /\ IF RegistryBusy THEN UNCHANGED refresh
          ELSE refresh' = [NoRefresh EXCEPT !.at = "begun"]

\* _prepare_model_menu, whenever the menu is opened.
OpenMenu == AskRefresh /\ UNCHANGED <<saved, plugins, catalog, form, job, due>>

\* sync_remote_profiles reads the profiles, and lists the plugins.
SyncBegins ==
  /\ refresh.at = "begun"
  /\ refresh' =
       [at |-> "removing",
        wanted |-> [s \in Servers |-> IF saved[s].enabled THEN saved[s] ELSE Absent],
        todo |-> {s \in Servers : Registered(s)}]
  /\ UNCHANGED <<saved, plugins, catalog, form, pending, job, due>>

\* A plugin whose profile is gone or another is unregistered and closed; if it
\* is active, unregister raises and the refresh fails as a whole.
SyncRemoves(s) ==
  /\ refresh.at = "removing" /\ s \in refresh.todo
  /\ IF plugins[s].profile = refresh.wanted[s]
     THEN refresh' = [refresh EXCEPT !.todo = @ \ {s}] /\ UNCHANGED plugins
     ELSE IF RegistryBusy /\ job.on = s
     THEN refresh' = [NoRefresh EXCEPT !.at = "applying"] /\ UNCHANGED plugins
     ELSE /\ refresh' = [refresh EXCEPT !.todo = @ \ {s}]
          /\ plugins' = [plugins EXCEPT ![s] = NoPlugin]
  /\ UNCHANGED <<saved, catalog, form, pending, job, due>>

SyncTurnsToFetch ==
  /\ refresh.at = "removing" /\ refresh.todo = {}
  /\ refresh' = [refresh EXCEPT !.at = "fetching", !.todo = Known(refresh.wanted)]
  /\ UNCHANGED <<saved, plugins, catalog, form, pending, job, due>>

\* refresh_remote_profiles, for one profile: _fetch_models succeeds, fails, or
\* its answer is refused.  A plugin is made and registered only with models; one
\* that is there advertises none while its server cannot be reached.
Fetches(s) ==
  /\ refresh.at = "fetching" /\ s \in refresh.todo
  /\ \E reached \in BOOLEAN :
       plugins' = [plugins EXCEPT ![s] =
         IF Registered(s) THEN [@ EXCEPT !.offers = reached]
         ELSE IF reached THEN [profile |-> refresh.wanted[s], offers |-> TRUE]
         ELSE @]
  /\ refresh' = [refresh EXCEPT !.todo = @ \ {s}]
  /\ UNCHANGED <<saved, catalog, form, pending, job, due>>

SyncEnds ==
  /\ refresh.at = "fetching" /\ refresh.todo = {}
  /\ refresh' = [NoRefresh EXCEPT !.at = "applying"]
  /\ UNCHANGED <<saved, plugins, catalog, form, pending, job, due>>

\* apply, on the GUI thread: the menu is made anew, and a refresh that was asked
\* for meanwhile is put on the GUI's queue.
Applies ==
  /\ refresh.at = "applying"
  /\ catalog' = {s \in Servers : plugins[s].offers}
  /\ refresh' = [NoRefresh EXCEPT !.at = IF pending THEN "again" ELSE "none"]
  /\ pending' = FALSE
  /\ UNCHANGED <<saved, plugins, form, job, due>>

\* The queued call.  (No other refresh can have started: until the call every
\* request is one more pending one, which it answers too.)
RefreshesAgain ==
  /\ refresh.at = "again"
  /\ refresh' = [NoRefresh EXCEPT !.at = IF RegistryBusy THEN "none" ELSE "begun"]
  /\ pending' = FALSE
  /\ UNCHANGED <<saved, plugins, catalog, form, job, due>>

RefreshSteps ==
  \/ SyncBegins \/ SyncTurnsToFetch \/ SyncEnds \/ Applies \/ RefreshesAgain
  \/ \E s \in Servers : SyncRemoves(s) \/ Fetches(s)

-----------------------------------------------------------------------------
(* The server manager.                                                     *)

\* open_server_manager shows the first profile of the list, or a new one.
OpenManager ==
  /\ ~form.open /\ ~ConfigurationBusy
  /\ \E s \in Servers \cup {Nobody} :
       /\ s \in Known(saved) \/ (s = Nobody /\ Known(saved) = {})
       /\ form' = Shows(s, saved)
  /\ UNCHANGED <<saved, plugins, catalog, refresh, pending, job, due>>

Types(text) ==
  /\ form.open
  /\ form' = [form EXCEPT !.text = text, !.dirty = TRUE]
  /\ UNCHANGED <<saved, plugins, catalog, refresh, pending, job, due>>

\* new_remote_profile_id takes an id that neither a profile nor a plugin has.
FreeIds == {s \in Servers : saved[s] = Absent /\ ~Registered(s)}

\* candidate_from_form, of a form f.
Entered(f) == [text |-> f.text, enabled |-> f.enabled]

Valid(f) == f.text # Nobody

Unchanged(f) == f.id # Nobody /\ saved[f.id] = Entered(f)

\* persist_profile has nothing to write.
NothingToWrite(f) ==
  /\ ~f.dirty \/ (Valid(f) /\ ~ConfigurationBusy /\ Unchanged(f))
  /\ UNCHANGED <<saved, refresh, pending, due>>

\* persist_profile refuses: a job is under way, the entries are bad, the file
\* cannot be written.
PersistRefused(f) == f.dirty /\ UNCHANGED <<saved, refresh, pending, due>>

\* persist_profile writes the profile `id`, replaces it in the list, and asks
\* for a refresh.
PersistWrites(f, id) ==
  /\ f.dirty /\ ~ConfigurationBusy /\ Valid(f) /\ ~Unchanged(f)
  /\ IF f.id = Nobody THEN id \in FreeIds ELSE id = f.id
  /\ saved' = [saved EXCEPT ![id] = Entered(f)]
  /\ due' = due \cup {id}
  /\ AskRefresh

\* The form f is saved if it can be, and shown on: save_on_focus_out.
Saves(f) ==
  /\ \/ NothingToWrite(f) /\ form' = [f EXCEPT !.dirty = FALSE]
     \/ \E id \in Servers :
          PersistWrites(f, id) /\ form' = [f EXCEPT !.dirty = FALSE, !.id = id]
     \/ PersistRefused(f) /\ form' = f
  /\ UNCHANGED <<plugins, catalog, job>>

FocusOut == form.open /\ form.dirty /\ Saves(form)

\* Fault: another profile is shown although the form could not be saved.
LeavesFormAnyway(to) ==
  /\ NothingToWrite(form) \/ PersistRefused(form)
       \/ \E id \in Servers : PersistWrites(form, id)
  /\ form' = to
  /\ UNCHANGED <<plugins, catalog, job>>

\* A handler that leaves the form saves first, and stays if that is refused.
LeavesForm(to) ==
  /\ \/ /\ NothingToWrite(form) \/ \E id \in Servers : PersistWrites(form, id)
        /\ form' = to
     \/ PersistRefused(form) /\ UNCHANGED form
  /\ UNCHANGED <<plugins, catalog, job>>

\* selected
SelectProfile(s) ==
  /\ form.open /\ s \in Known(saved) /\ s # form.id
  /\ LeavesForm(Shows(s, saved))

\* add_profile
AddProfile == form.open /\ LeavesForm(Shows(Nobody, saved))

\* close_dialog
CloseManager == form.open /\ LeavesForm(ClosedForm)

\* enabled_changed: the form is dirty, and saved at once if it can be.
ToggleEnabled ==
  form.open /\ Saves([form EXCEPT !.enabled = ~@, !.dirty = TRUE])

\* remove_profile, after the question, or with an OSError.
RemoveProfile ==
  /\ form.open /\ form.id # Nobody /\ ~ConfigurationBusy
  /\ saved' = [saved EXCEPT ![form.id] = Absent]
  /\ due' = due \cup {form.id}
  /\ form' = Shows(Nobody, saved)
  /\ AskRefresh
  /\ UNCHANGED <<plugins, catalog, job>>

ManagerSteps ==
  \/ OpenManager \/ FocusOut \/ AddProfile \/ CloseManager \/ ToggleEnabled
  \/ RemoveProfile \/ \E t \in Texts \cup {Nobody} : Types(t) \/ \E s \in Servers : SelectProfile(s)

-----------------------------------------------------------------------------
(* Jobs, which keep the registry busy while a backend works for them.      *)

\* A job starts, here or on a server.  The thread of the queue takes up jobs that
\* were made with an earlier menu, whatever the GUI shows.
JobStarts ==
  /\ job.at = "none"
  /\ \E s \in Servers \cup {Nobody} : job' = [at |-> "started", on |-> s]
  /\ UNCHANGED <<saved, plugins, catalog, form, refresh, pending, due>>

\* registry._select and _run; a backend that is not there fails the job.
JobActivates ==
  /\ job.at = "started"
  /\ IF job.on = Nobody \/ Registered(job.on)
     THEN job' = [job EXCEPT !.at = "active"] /\ due' = {}
     ELSE job' = NoWork /\ UNCHANGED due
  /\ UNCHANGED <<saved, plugins, catalog, form, refresh, pending>>

JobEnds ==
  /\ job.at = "active" /\ job' = NoWork
  /\ UNCHANGED <<saved, plugins, catalog, form, refresh, pending, due>>

CatalogNext ==
  \/ OpenMenu \/ RefreshSteps \/ ManagerSteps
  \/ JobStarts \/ JobActivates \/ JobEnds

CatalogSpec == CatalogInit /\ [][CatalogNext]_catalogVars

\* The refresh thread and the GUI's queue go on.  Nothing is assumed of the user.
CatalogFairSpec == CatalogSpec /\ WF_catalogVars(RefreshSteps)

-----------------------------------------------------------------------------
(* Properties.                                                             *)

Stale(s) ==
  plugins[s].profile # (IF saved[s].enabled THEN saved[s] ELSE Absent)

\* A plugin with a profile that has been changed, disabled or deleted does not
\* stay registered, even if the change came while a refresh was under way that
\* had read the old profiles; unless a backend is busy meanwhile, which the code
\* puts first.
ProfilesAreFollowed ==
  \A s \in Servers :
    s \in due /\ Registered(s) /\ Stale(s)
      ~> s \notin due \/ ~Registered(s) \/ ~Stale(s)

\* What the user has typed is saved before the form shows something else or
\* closes, unless its profile is deleted.
NoEditIsLost ==
  [][form.dirty /\ ~form'.dirty =>
       \/ form.id # Nobody /\ saved'[form.id] \in {Entered(form'), Entered(form), Absent}
       \/ form.id = Nobody /\ \E s \in FreeIds : saved'[s] \in {Entered(form'), Entered(form)}]_catalogVars

=============================================================================
