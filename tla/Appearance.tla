----------------------------- MODULE Appearance -----------------------------
(***************************************************************************)
(* What the window looks like: the theme of view/managers/theme_manager.py *)
(* and the colours of color_manager.py, which are two objects that must    *)
(* agree, the language, the fonts, the marks of the menu, which is rebuilt *)
(* when the language changes, and the right section that can be hidden.    *)
(***************************************************************************)
EXTENDS Naturals, Sequences

CONSTANTS
    Theme,          \* the themes get_available_themes finds, in its order
    Language,       \* the languages with a file
    ColorFile       \* what color_rules.json may hold: sequences of rules, or an unreadable file

\* a rule, "" for a colour it lacks
ColorRule(r) == r = [color |-> r.color, light |-> r.light, dark |-> r.dark]

ASSUME AppearanceAssumption ==
    /\ Theme \in Seq(STRING)
    /\ \A c \in ColorFile : c.kind = "rules" => \A i \in DOMAIN c.rules : ColorRule(c.rules[i])

VARIABLES
    theme,          \* _current_theme of the theme manager
    rules,          \* _rules of the color manager: a ColorRule each
    colorFile,      \* color_rules.json: [kind |-> "missing" | "broken"] or the rules
    language,
    font,           \* point size of the proportional font
    sheet,          \* the style sheet: whose theme, which font
    mark,           \* the theme checked in the menu
    shown,          \* the right section is visible
    shownMark,      \* and is checked in the menu
    width,          \* size the splitter gives the right section, kept while it is hidden
    savedWidth,     \* _right_section_width: a width or None
    switched        \* history variable: this process has switched its theme

appearanceVars == <<theme, rules, colorFile, language, font, sheet, mark, shown, shownMark, width, savedWidth, switched>>

\* None, the width it is shown with when none was kept, its half of a new window, and what is left of
\* a section the layout has already hidden
NoWidth == 0
DefaultWidth == 300
EvenWidth == 700
Squeezed == 100
Themes == {Theme[i] : i \in DOMAIN Theme}
\* apply_theme of the theme manager falls back to dark when a theme has no file; without a file of
\* its own the common style sheet is all a theme has
ThemeFile(name) == name \in Themes
ThemeApplied(name) == IF ThemeFile(name) \/ name \in {"dark", "light"} THEN name ELSE "dark"
Sheet(name, size) == [theme |-> IF ThemeFile(name) THEN name ELSE "", font |-> size]

\* set_proportional_font and set_fixed_font, which one size stands for, apply the theme again
SetFont(size) == font' = size /\ sheet' = Sheet(theme, size)

\* ColorManager.apply_theme: only "light" is light; a missing colour keeps the one of before
Recoloured(r, name) ==
    LET own == IF name = "light" THEN r.light ELSE r.dark
    IN  [r EXCEPT !.color = IF own # "" THEN own ELSE r.color]
RulesIn(rs, name) == [i \in DOMAIN rs |-> Recoloured(rs[i], name)]
DefaultRules == << [color |-> "", light |-> "L", dark |-> "D"] >>
\* load_rules gives a rule of an older file its one colour twice
Loaded(r) == [color |-> r.color, light |-> IF r.light # "" THEN r.light ELSE r.color,
              dark |-> IF r.dark # "" THEN r.dark ELSE r.color]

\* save_rules
Saved(rs) == [kind |-> "rules", rules |-> rs]

\* ColorManager.__init__: the rules of the file, or the defaults, which are saved when there is no file;
\* dark is applied whatever the theme is
NewColorManager ==
    /\ rules' = RulesIn(CASE colorFile.kind = "rules" -> [i \in DOMAIN colorFile.rules |-> Loaded(colorFile.rules[i])]
                        [] OTHER -> DefaultRules, "dark")
    /\ colorFile' = IF colorFile.kind = "missing" THEN Saved(DefaultRules) ELSE colorFile

\* MainMenuBar.init_menu: the theme shown is checked, and so is the right section, always
MenuRebuilt == mark' = theme' /\ shownMark' = TRUE

\* MainWindow.switch_theme
\* mutant: the colour manager is not told
SwitchThemeOnly(name) ==
    /\ theme' = ThemeApplied(name) /\ sheet' = Sheet(ThemeApplied(name), font)
    /\ switched' = TRUE /\ UNCHANGED rules
SwitchTheme(name) ==
    /\ theme' = ThemeApplied(name) /\ sheet' = Sheet(ThemeApplied(name), font)
    /\ switched' = TRUE /\ rules' = RulesIn(rules, name)

\* MainMenuBar.set_current_theme: a name the menu lacks changes no mark
MarkTheme(name, before) == IF name \in Themes THEN name ELSE before

\* LanguageManager.set_language, which rebuilds the menu when the language changes
NewLanguage(code) == IF code \in Language THEN code ELSE language
MenuAfter(code, name) ==
    IF NewLanguage(code) # language
    THEN MenuRebuilt
    ELSE mark' = MarkTheme(name, mark) /\ UNCHANGED shownMark

\* the theme menu: Qt checks the action, then theme_changed is emitted
MenuTheme(name) ==
    /\ SwitchTheme(name)
    /\ mark' = MarkTheme(name, mark)
    /\ UNCHANGED <<colorFile, language, font, shown, shownMark, width, savedWidth>>

MenuLanguage(code) ==
    /\ code # language
    /\ language' = NewLanguage(code)
    /\ UNCHANGED <<theme, rules, colorFile, font, sheet, shown, width, savedWidth, switched>>
    /\ MenuRebuilt

\* the check box of the menu is turned over by Qt, then toggle_right_section gets its new value; a
\* rebuilt menu checks it, so that a hidden section may be hidden again
ToggleRightSection(maximized) ==
    LET visible == ~shownMark
    IN  /\ shown' = visible /\ shownMark' = visible
        /\ CASE maximized -> UNCHANGED <<width, savedWidth>>
             [] ~maximized /\ visible ->
                    /\ width' = IF savedWidth # NoWidth THEN savedWidth ELSE DefaultWidth
                    /\ savedWidth' = NoWidth
             [] OTHER -> savedWidth' \in {width} \cup (IF shown THEN {} ELSE {Squeezed}) /\ UNCHANGED width
        /\ UNCHANGED <<theme, rules, colorFile, language, font, sheet, mark, switched>>

\* the splitter
DragSection(w) ==
    /\ shown /\ w # width /\ width' = w
    /\ UNCHANGED <<theme, rules, colorFile, language, font, sheet, mark, shown, shownMark, savedWidth, switched>>

\* apply_state restores the splitter, or leaves the sections their even shares
\* mutant: the state of the splitter is dropped
SplitterIgnored(size) == EvenWidth
SplitterRestored(size) == IF size # NoWidth THEN size ELSE EvenWidth

\* the managers of a new process, and MainWindow.apply_state with what the settings hold: the size of
\* the splitter for the section, and the width a hidden one will be shown with
NewWindow(name, code, size, visible, split, w) ==
    /\ theme' = ThemeApplied(name)
    /\ language' = IF code \in Language THEN code ELSE "en"
    /\ NewColorManager
    /\ font' = size /\ sheet' = Sheet(ThemeApplied(name), size)
    /\ mark' = MarkTheme(theme', "")
    /\ shown' = visible /\ shownMark' = visible
    /\ width' = SplitterRestored(split) /\ savedWidth' = w
    /\ switched' = FALSE

\* the managers before the settings are applied
ThemeManagerInit == theme = "dark" /\ font = 9 /\ sheet = Sheet("dark", 9)
LanguageManagerInit == language = "en"

AppearanceInit ==
    /\ colorFile \in ColorFile
    /\ ThemeManagerInit /\ LanguageManagerInit /\ rules = <<>> /\ mark = "dark"
    /\ shown = TRUE /\ shownMark = TRUE /\ width = EvenWidth /\ savedWidth = NoWidth /\ switched = FALSE
=============================================================================
