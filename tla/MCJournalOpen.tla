---------------------------- MODULE MCJournalOpen ----------------------------
(* JournalOpen with the settings that resolve_journal_paths tells apart.    *)
EXTENDS JournalOpen

MCJournalSettings == {"absolute", "fallback", "empty"}
MCStateSettings   == {"absolute", "relative"}
=============================================================================
