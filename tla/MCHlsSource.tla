---- MODULE MCHlsSource ----
EXTENDS HlsSource
MCTagOf == [u \in Urls |->
  CASE u \in {"list", "seg"} -> "http" [] u = "local" -> "file" [] OTHER -> "no tag"]
====
