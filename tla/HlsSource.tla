------------------------------ MODULE HlsSource ------------------------------
(***************************************************************************)
(* Where the HLS fetcher gets its playlists and segments from.  It is      *)
(* handed a table of functions (esp_hls_stream_io_t) and opens, reloads    *)
(* and closes URLs through it.  There are three implementations:           *)
(*   - "cache", the IO (hls_io.c): all handles share one io, which is      *)
(*     kept when a handle is closed and given the next URL if that is of   *)
(*     the same scheme;                                                    *)
(*   - "ios", the helper on ios (hls_io_helper.c): an io for each handle,  *)
(*     but a handle of the playlist is a reference to the one io of it;    *)
(*   - "files", the helper on files (hls_helper.c): the same on FILE.      *)
(* The fetcher itself is a closed library; Careful says how it calls.      *)
(***************************************************************************)
EXTENDS Naturals, FiniteSets

CONSTANTS Urls, Playlist,   \* the URLs, and the one of the playlist
          Tags, TagOf,      \* the ios of the pool, and the one for each URL
          Handles,          \* bound: handles at the same time
          Files,            \* bound: ios or FILEs at the same time, 1 .. n
          Faults,           \* what may fail: "new" (no io), "open" (of an io)
          Careful           \* input: one handle of the cache at a time, and a
                            \* handle of the playlist is reloaded with it only

NoTag == "no tag"
NoUrl == "no url"
Null == 0

ASSUME SourceAssumption ==
  /\ Playlist \in Urls /\ NoUrl \notin Urls /\ NoTag \notin Tags
  /\ TagOf \in [Urls -> Tags \cup {NoTag}]
  /\ Files \subseteq Nat \ {Null}

VARIABLES backend,   \* which table of functions the fetcher was given
          active,    \* between _hls_open and _hls_close, init and deinit
          file,      \* the ios or FILEs
          shared,    \* hls_io->io, or playlist_fd
          tag,       \* prev_io_tag
          handle,    \* what the fetcher holds
          want       \* the URL a handle was last opened or reloaded for

sourceVars == <<backend, active, file, shared, tag, handle, want>>

\* Not there; and an io that was closed and deinited but not deleted, to which
\* nothing points any more.
Gone == [gone |-> TRUE]
Shell == [shell |-> TRUE]
Ended == {Gone, Shell}
Closed == [closed |-> TRUE]

SourceInit ==
  /\ backend \in {"cache", "ios", "files"}
  /\ active = FALSE
  /\ file = [f \in Files |-> Gone]
  /\ shared = Null
  /\ tag = NoTag
  /\ handle = [h \in Handles |-> Closed]
  /\ want = [h \in Handles |-> NoUrl]

Fresh == CHOOSE f \in Files : file[f] = Gone
Room == \E f \in Files : file[f] = Gone

Opened(fs, f, url, ok) == [fs EXCEPT ![f] = [url |-> url, open |-> ok]]
Discarded(fs, f) == [g \in Files |-> IF g = f THEN Gone ELSE fs[g]]
Emptied(fs, f) == [g \in Files |-> IF g = f THEN Shell ELSE fs[g]]

\* esp_gmf_io_reload: closes the io and opens it on the URL.
Reloads(f, url, ok) ==
  IF f = Null THEN ok = FALSE /\ UNCHANGED file
              ELSE file' = Opened(file, f, url, ok)

Gives(h, url, f, ref) ==
  /\ handle' = [handle EXCEPT ![h] = [file |-> f, ref |-> ref]]
  /\ want' = [want EXCEPT ![h] = url]
GivesIf(ok, h, url, f, ref) ==
  IF ok THEN Gives(h, url, f, ref) ELSE UNCHANGED <<handle, want>>

IsOpen(h) == handle[h] # Closed
Shut(h) ==
  /\ handle' = [handle EXCEPT ![h] = Closed]
  /\ want' = [want EXCEPT ![h] = NoUrl]

\* What a read of the handle returns data of, if any.
Reads(h) ==
  LET f == handle[h].file
  IN  IF f = Null \/ file[f] \in Ended \/ ~file[f].open THEN NoUrl ELSE file[f].url

(***************************************************************************)
(* "cache"                                                                 *)
(***************************************************************************)
_hls_open ==
  /\ backend = "cache" /\ ~active
  /\ active' = TRUE
  /\ UNCHANGED <<backend, file, shared, tag, handle, want>>

\* The io of the scheme before: only a URL of another scheme replaces it.
CacheHit(h, url) ==
  /\ TagOf[url] = tag
  /\ \E ok \in BOOLEAN : Reloads(shared, url, ok) /\ GivesIf(ok, h, url, shared, FALSE)
  /\ UNCHANGED <<shared, tag>>

\* The io of the scheme before is closed and deinited, but not deleted.  Without
\* a new io the tag stays; with one it is set, though the io may not open.
CacheMiss(h, url) ==
  /\ TagOf[url] # tag
  /\ \/ /\ "new" \in Faults
        /\ file' = Emptied(file, shared)
        /\ shared' = Null
        /\ UNCHANGED <<tag, handle, want>>
     \/ \E ok \in BOOLEAN :
          /\ Room
          /\ file' = Opened(Emptied(file, shared), Fresh, url, ok)
          /\ shared' = Fresh
          /\ tag' = TagOf[url]
          /\ GivesIf(ok, h, url, Fresh, FALSE)

\* A URL no io of the pool supports: the handle is given out, without an io.
CacheUnsupported(h, url) == Gives(h, url, Null, FALSE) /\ UNCHANGED <<file, shared, tag>>

cache_open(h, url) ==
  /\ backend = "cache" /\ active /\ ~IsOpen(h)
  /\ Careful => ~\E g \in Handles : IsOpen(g)
  /\ IF TagOf[url] = NoTag THEN CacheUnsupported(h, url)
                           ELSE CacheHit(h, url) \/ CacheMiss(h, url)
  /\ UNCHANGED <<backend, active>>

cache_close(h) ==
  /\ backend = "cache" /\ IsOpen(h)
  /\ Shut(h)
  /\ UNCHANGED <<backend, active, file, shared, tag>>

\* The fetcher closes its handles, then the io goes.
_hls_close ==
  /\ backend = "cache" /\ active
  /\ active' = FALSE
  /\ file' = Discarded(file, shared)
  /\ shared' = Null /\ tag' = NoTag
  /\ handle' = [h \in Handles |-> Closed] /\ want' = [h \in Handles |-> NoUrl]
  /\ UNCHANGED backend

\* The reload of the cache, and of the helper on ios.
io_reload(h, url) ==
  /\ backend \in {"cache", "ios"} /\ IsOpen(h)
  /\ Careful /\ handle[h].ref => url = Playlist
  /\ \E ok \in BOOLEAN :
       /\ Reloads(handle[h].file, url, ok)
       /\ want' = IF ok THEN [want EXCEPT ![h] = url] ELSE want
  /\ UNCHANGED <<backend, active, shared, tag, handle>>

(***************************************************************************)
(* "ios"                                                                   *)
(***************************************************************************)
esp_hls_extractor_io_cfg_init ==
  /\ backend = "ios" /\ ~active
  /\ active' = TRUE
  /\ UNCHANGED <<backend, file, shared, tag, handle, want>>

\* The first read, seek or size of the playlist opens it; an io that does not
\* open is left behind.
origin_pending_open ==
  /\ backend = "ios" /\ active /\ shared = Null /\ Room
  /\ \E ok \in {TRUE} \cup {b \in {FALSE} : "open" \in Faults} :
       /\ file' = Opened(file, Fresh, Playlist, ok)
       /\ shared' = IF ok THEN Fresh ELSE Null
  /\ UNCHANGED <<backend, active, tag, handle, want>>

OpensPlaylistIo(h) ==
  \E ok \in BOOLEAN :
    Reloads(shared, Playlist, ok) /\ GivesIf(ok, h, Playlist, shared, TRUE)

OpensIo(h, url) ==
  /\ Room
  /\ \E ok \in {TRUE} \cup {b \in {FALSE} : "open" \in Faults} :
       file' = Opened(file, Fresh, url, ok) /\ GivesIf(ok, h, url, Fresh, FALSE)

\* Unsupported, or there is no memory or no new io: no handle.
io_file_open(h, url) ==
  /\ backend = "ios" /\ active /\ ~IsOpen(h)
  /\ TagOf[url] # NoTag
  /\ IF url = Playlist THEN OpensPlaylistIo(h) ELSE OpensIo(h, url)
  /\ UNCHANGED <<backend, active, shared, tag>>

\* The io of the playlist is closed with any handle of it, but not deleted.
io_file_close(h) ==
  /\ backend = "ios" /\ IsOpen(h)
  /\ file' = IF handle[h].ref THEN [file EXCEPT ![handle[h].file].open = FALSE]
             ELSE Discarded(file, handle[h].file)
  /\ Shut(h)
  /\ UNCHANGED <<backend, active, shared, tag>>

(***************************************************************************)
(* "files"                                                                 *)
(***************************************************************************)
esp_hls_extractor_file_cfg_init ==
  /\ backend = "files" /\ ~active /\ Room
  /\ active' = TRUE
  /\ file' = Opened(file, Fresh, Playlist, TRUE)
  /\ shared' = Fresh
  /\ UNCHANGED <<backend, tag, handle, want>>

\* Mutant: the handle of the playlist is not marked a reference.
file_open_unmarked(h, url) ==
  /\ backend = "files" /\ active /\ ~IsOpen(h)
  /\ IF url = Playlist
     THEN Gives(h, url, shared, FALSE) /\ UNCHANGED file
     ELSE Room /\ file' = Opened(file, Fresh, url, TRUE) /\ Gives(h, url, Fresh, FALSE)
  /\ UNCHANGED <<backend, active, shared, tag>>

\* A file that does not open gives no handle.
file_open(h, url) ==
  /\ backend = "files" /\ active /\ ~IsOpen(h)
  /\ IF url = Playlist
     THEN Gives(h, url, shared, TRUE) /\ UNCHANGED file
     ELSE Room /\ file' = Opened(file, Fresh, url, TRUE) /\ Gives(h, url, Fresh, FALSE)
  /\ UNCHANGED <<backend, active, shared, tag>>

\* Mutant: every handle is taken for a reference.
file_reload_kept(h, url) ==
  /\ backend = "files" /\ IsOpen(h)
  /\ want' = [want EXCEPT ![h] = url]
  /\ UNCHANGED <<backend, active, file, shared, tag, handle>>

\* A reference is never reloaded, which is reported as done; another handle
\* has no file when the new one does not open.
file_reload(h, url) ==
  /\ backend = "files" /\ IsOpen(h) /\ handle[h].file # Null
  /\ Careful /\ handle[h].ref => url = Playlist
  /\ \E ok \in BOOLEAN :
       /\ handle[h].ref => ok
       /\ want' = IF ok THEN [want EXCEPT ![h] = url] ELSE want
       /\ file' = IF handle[h].ref THEN file
                  ELSE IF ok THEN Opened(file, handle[h].file, url, TRUE)
                  ELSE Discarded(file, handle[h].file)
       /\ handle' = IF ok THEN handle ELSE [handle EXCEPT ![h].file = Null]
  /\ UNCHANGED <<backend, active, shared, tag>>

file_close(h) ==
  /\ backend = "files" /\ IsOpen(h)
  /\ file' = IF handle[h].ref THEN file ELSE Discarded(file, handle[h].file)
  /\ Shut(h)
  /\ UNCHANGED <<backend, active, shared, tag>>

\* The deinit of both helpers, after the extractor closed its handles.
cfg_deinit ==
  /\ backend \in {"ios", "files"} /\ active
  /\ \A h \in Handles : ~IsOpen(h)
  /\ active' = FALSE
  /\ file' = Discarded(file, shared)
  /\ shared' = Null
  /\ UNCHANGED <<backend, tag, handle, want>>

SourceNext ==
  \/ _hls_open \/ _hls_close
  \/ esp_hls_extractor_io_cfg_init \/ origin_pending_open
  \/ esp_hls_extractor_file_cfg_init \/ cfg_deinit
  \/ \E h \in Handles :
       \/ cache_close(h) \/ io_file_close(h) \/ file_close(h)
       \/ \E url \in Urls :
            \/ cache_open(h, url) \/ io_file_open(h, url) \/ file_open(h, url)
            \/ io_reload(h, url) \/ file_reload(h, url)

SourceSpec == SourceInit /\ [][SourceNext]_sourceVars

-----------------------------------------------------------------------------
\* What the fetcher reads through a handle is the URL that it opened or last
\* reloaded the handle for, or nothing: not what another handle is at, nor an
\* io that was closed under it or that served the scheme before.
ReadsItsUrl == \A h \in Handles : IsOpen(h) => Reads(h) \in {want[h], NoUrl}

\* Each io or FILE that was not ended belongs to one: it is the shared one, or
\* that of one handle; and what they hold was not ended.  So it is all given
\* back in the end, and only once.  What the property leaves out, openly, are the
\* shells: the cache loses one at each change of scheme, the helpers never do.
EachHasItsOwner ==
  LET own == {h \in Handles : IsOpen(h) /\ ~handle[h].ref /\ handle[h].file # shared}
      held == {handle[h].file : h \in own} \cup {shared}
  IN  /\ {f \in Files : file[f] \notin Ended} = held \ {Null}
      /\ \A h, g \in own : handle[h].file = handle[g].file => h = g \/ handle[h].file = Null
      /\ backend # "cache" => \A f \in Files : file[f] # Shell
=============================================================================
