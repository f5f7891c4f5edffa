---------------------------- MODULE MCDashboard -----------------------------
EXTENDS Dashboard

CONSTANTS ds1, ds2, cpu, ram

TwoSources == {ds1, ds2}
TwoPanels  == {cpu, ram}
OnlyCpu    == {cpu}
Hours      == {1, 24}
=============================================================================
